---- MODULE Spec2Model ----
(***************************************************************************)
(* Model of slipstream-client/src/android.rs: the JNI lifecycle controller *)
(* (nativeStartSlipstreamClient / nativeStopSlipstreamClient /             *)
(* nativeIsClientRunning), the session thread it spawns, the load-time     *)
(* registry written by JNI_OnLoad, and protect_socket.                     *)
(*                                                                         *)
(* Every entry point is split at its accesses to shared state (IS_RUNNING, *)
(* CLIENT_STATE, the oneshot channel, the thread, JAVA_VM, BRIDGE_CLASS),  *)
(* because the host runtime may call the entry points from any thread.     *)
(*                                                                         *)
(* Spec       the lifecycle controller under arbitrary interleaving        *)
(* SeqSpec    the lifecycle controller with calls made one at a time and   *)
(*            fair scheduling of executing calls and spawned threads       *)
(* BridgeSpec the registry and protect_socket, which share no state with   *)
(*            the lifecycle controller                                     *)
(***************************************************************************)
EXTENDS Integers, Sequences, FiniteSets, TLC

\* ---------------------------------------------------------------- bounds
MaxSessions == 2
MaxResolvers == 2
MaxLoads == 2

\* The host threads that call the entry points.
Callers == {"host1", "host2"}
Sessions == 1..MaxSessions

\* ------------------------------------------------------ program constants
NoHandle == 0
NullVm == 0
NoClass == 0
JNI_TRUE == 1
JNI_FALSE == 0
RC_OK == 0
RC_BAD_STRING == -1
RC_BAD_RESOLVERS == -2
RC_BAD_PORTS == -3
RC_BAD_HOST_ELEMENT == -4
RC_BAD_HOST_STRING == -5
RC_BAD_HOST_PARSE == -6
RC_BAD_CONGESTION == -7
RC_ALREADY_RUNNING == -10
RC_FAILED_TO_START == -11

VARIABLES
    IS_RUNNING,     \* static IS_RUNNING: AtomicBool
    CLIENT_STATE,   \* static CLIENT_STATE: NoHandle (None) or the session whose ClientHandle is stored
    JAVA_VM,        \* static JAVA_VM: NullVm or the stored pointer
    BRIDGE_CLASS,   \* static BRIDGE_CLASS: NoClass or the cached global reference
    loads,          \* number of JNI_OnLoad calls so far
    refs,           \* number of global references created so far by new_global_ref
    lpc,            \* position of the host thread that runs JNI_OnLoad
    ppc,            \* per native thread: position inside protect_socket
    pfd,            \* per native thread: the fd argument of its protect_socket call
    pvm,            \* per native thread: the pointer it read from JAVA_VM
    pclass,         \* per native thread: the reference it read from BRIDGE_CLASS
    attached,       \* native threads attached to the JVM
    invoked,        \* per native thread: protectSocket invocations made by its current call
    pret,           \* per native thread: result of its last protect_socket call
    thread,         \* per session: position of the spawned thread
    outcome,        \* per session: which branch of tokio::select! resolved
    chan,           \* per session: state of the oneshot channel, seen from the sender side
    txUsed,         \* per session: number of times shutdown_tx.send was called
    joined,         \* per session: number of times thread_handle.join returned
    dropped,        \* sessions whose ClientHandle was dropped without a join
    nextSession,    \* number of oneshot channels created so far
    pc,             \* per caller: position inside the entry point it is executing
    sess,           \* per caller: the session its start() created / the handle its stop() took
    ret             \* the entry point that returned last, and its result

vars == <<IS_RUNNING, CLIENT_STATE, JAVA_VM, BRIDGE_CLASS, loads, refs, lpc, ppc, pfd, pvm,
          pclass, attached, invoked, pret, thread, outcome,
          chan, txUsed, joined, dropped, nextSession, pc, sess, ret>>

statics == <<JAVA_VM, BRIDGE_CLASS, loads, refs, lpc>>
protects == <<ppc, pfd, pvm, pclass, attached, invoked, pret>>
registry == <<statics, protects>>
lifecycle == <<IS_RUNNING, CLIENT_STATE, thread, outcome, chan, txUsed, joined, dropped,
               nextSession, pc, sess, ret>>
threads == <<thread, outcome>>
handles == <<chan, txUsed, joined, dropped>>

\* ------------------------------------------------------------ arguments
\* What the JNI accessors of start() can fail on, in the order the code calls them.
JniFailures == {"none", "domain", "listen_host", "congestion", "hosts_len", "ports", "auth"}
\* A resolver host entry: readable and parsable, or failing at one of the three steps.
HostKinds == {"ok", "no_element", "no_string", "no_parse"}

\* The sequences over S of length at most n.
SeqsUpTo(S, n) == UNION {[1..k -> S] : k \in 0..n}

\* Arguments of start(): any resolver list when every JNI accessor works, and
\* one parsable resolver when an accessor fails.
StartArgs ==
    [jni : {"none"}, hosts : SeqsUpTo(HostKinds, MaxResolvers)]
        \cup [jni : JniFailures \ {"none"}, hosts : {<<"ok">>}]

\* The resolver loop: the first failing entry decides the code.
RECURSIVE BuildResolvers(_, _)
BuildResolvers(hosts, i) ==
    IF i > Len(hosts) THEN RC_OK
    ELSE IF hosts[i] = "no_element" THEN RC_BAD_HOST_ELEMENT
    ELSE IF hosts[i] = "no_string" THEN RC_BAD_HOST_STRING
    ELSE IF hosts[i] = "no_parse" THEN RC_BAD_HOST_PARSE
    ELSE BuildResolvers(hosts, i + 1)

\* Marshaling without the final is_empty check.
Marshal_EmptyAccepted(a) ==
    IF a.jni = "domain" THEN RC_BAD_STRING
    ELSE IF a.jni = "listen_host" THEN RC_BAD_STRING
    ELSE IF a.jni = "congestion" THEN RC_BAD_CONGESTION
    ELSE IF a.jni = "hosts_len" THEN RC_BAD_RESOLVERS
    ELSE IF a.jni = "ports" THEN RC_BAD_PORTS
    ELSE IF a.jni = "auth" THEN RC_BAD_RESOLVERS
    ELSE BuildResolvers(a.hosts, 1)

\* Argument marshaling of start(): RC_OK, or the code of the first failure.
Marshal(a) ==
    IF a.jni = "domain" THEN RC_BAD_STRING
    ELSE IF a.jni = "listen_host" THEN RC_BAD_STRING
    ELSE IF a.jni = "congestion" THEN RC_BAD_CONGESTION
    ELSE IF a.jni = "hosts_len" THEN RC_BAD_RESOLVERS
    ELSE IF a.jni = "ports" THEN RC_BAD_PORTS
    ELSE IF a.jni = "auth" THEN RC_BAD_RESOLVERS
    ELSE IF BuildResolvers(a.hosts, 1) # RC_OK THEN BuildResolvers(a.hosts, 1)
    ELSE IF Len(a.hosts) = 0 THEN RC_BAD_RESOLVERS
    ELSE RC_OK

\* Threads that call protect_socket: the session thread or an engine worker.
NativeThreads == {"session", "worker"}
\* Socket descriptors passed to protect_socket.
Fds == {7, 8}
NoFd == -1

\* ----------------------------------------------------------------- Init
NoRet == [op |-> "none", code |-> 0]

Init ==
    /\ IS_RUNNING = FALSE
    /\ CLIENT_STATE = NoHandle
    /\ JAVA_VM = NullVm
    /\ BRIDGE_CLASS = NoClass
    /\ loads = 0
    /\ refs = 0
    /\ lpc = "idle"
    /\ ppc = [t \in NativeThreads |-> "idle"]
    /\ pfd = [t \in NativeThreads |-> NoFd]
    /\ pvm = [t \in NativeThreads |-> NullVm]
    /\ pclass = [t \in NativeThreads |-> NoClass]
    /\ attached = {}
    /\ invoked = [t \in NativeThreads |-> 0]
    /\ pret = [t \in NativeThreads |-> "none"]
    /\ thread = [s \in Sessions |-> "none"]
    /\ outcome = [s \in Sessions |-> "none"]
    /\ chan = [s \in Sessions |-> "none"]
    /\ txUsed = [s \in Sessions |-> 0]
    /\ joined = [s \in Sessions |-> 0]
    /\ dropped = {}
    /\ nextSession = 0
    /\ pc = [c \in Callers |-> "idle"]
    /\ sess = [c \in Callers |-> NoHandle]
    /\ ret = NoRet

\* --------------------------------------------------- load-time registry
\* A cell that takes every write: the last set wins.
OnceLockSet_Overwrite(cur, v) == v

\* OnceLock::set: stores only when the cell is still empty.
OnceLockSet(cur, v) == IF cur = NoClass THEN v ELSE cur

VmPointers == {1, 2}

\* line 30: JAVA_VM.store(vm), unconditionally.
JNI_OnLoad_StoreVm(vm) ==
    /\ lpc = "idle"
    /\ loads < MaxLoads
    /\ loads' = loads + 1
    /\ JAVA_VM' = vm
    /\ lpc' = "cache"
    /\ UNCHANGED <<BRIDGE_CLASS, refs, protects, lifecycle>>

\* lines 34-53: when get_env, find_class and new_global_ref all succeed (found),
\* a new global reference is created and offered to BRIDGE_CLASS.set; the
\* result of set is discarded.
JNI_OnLoad_CacheClass(found) ==
    /\ lpc = "cache"
    /\ IF found
       THEN /\ refs' = refs + 1
            /\ BRIDGE_CLASS' = OnceLockSet(BRIDGE_CLASS, refs + 1)
       ELSE UNCHANGED <<refs, BRIDGE_CLASS>>
    /\ lpc' = "idle"
    /\ UNCHANGED <<JAVA_VM, loads, protects, lifecycle>>

\* ------------------------------------------------------ protect_socket
\* lines 99-103: JAVA_VM.load; a null pointer returns false.
protect_LoadVm(t, fd) ==
    /\ ppc[t] = "idle"
    /\ invoked' = [invoked EXCEPT ![t] = 0]
    /\ IF JAVA_VM = NullVm
       THEN /\ pret' = [pret EXCEPT ![t] = "false"]
            /\ UNCHANGED <<ppc, pfd, pvm>>
       ELSE /\ ppc' = [ppc EXCEPT ![t] = "get_class"]
            /\ pfd' = [pfd EXCEPT ![t] = fd]
            /\ pvm' = [pvm EXCEPT ![t] = JAVA_VM]
            /\ pret' = [pret EXCEPT ![t] = "none"]
    /\ UNCHANGED <<statics, pclass, attached, lifecycle>>

\* protect_socket without the early return of lines 108-111: an empty cell is
\* carried on to the attach step.
protect_GetClass_NoCheck(t) ==
    /\ ppc[t] = "get_class"
    /\ pclass' = [pclass EXCEPT ![t] = BRIDGE_CLASS]
    /\ ppc' = [ppc EXCEPT ![t] = "attach"]
    /\ UNCHANGED <<pret, pfd, pvm>>
    /\ UNCHANGED <<statics, attached, invoked, lifecycle>>

\* lines 105-112: BRIDGE_CLASS.get(); an empty cell returns false.
protect_GetClass(t) ==
    /\ ppc[t] = "get_class"
    /\ IF BRIDGE_CLASS = NoClass
       THEN /\ pret' = [pret EXCEPT ![t] = "false"]
            /\ ppc' = [ppc EXCEPT ![t] = "idle"]
            /\ pfd' = [pfd EXCEPT ![t] = NoFd]
            /\ pvm' = [pvm EXCEPT ![t] = NullVm]
            /\ UNCHANGED pclass
       ELSE /\ pclass' = [pclass EXCEPT ![t] = BRIDGE_CLASS]
            /\ ppc' = [ppc EXCEPT ![t] = "attach"]
            /\ UNCHANGED <<pret, pfd, pvm>>
    /\ UNCHANGED <<statics, attached, invoked, lifecycle>>

\* lines 114-133: from_raw succeeds on the non-null pointer; then
\* attach_current_thread_as_daemon succeeds (ok) or fails and returns false.
protect_Attach(t, ok) ==
    /\ ppc[t] = "attach"
    /\ IF ok
       THEN /\ attached' = attached \cup {t}
            /\ ppc' = [ppc EXCEPT ![t] = "call"]
            /\ UNCHANGED <<pret, pfd, pvm, pclass>>
       ELSE /\ pret' = [pret EXCEPT ![t] = "false"]
            /\ ppc' = [ppc EXCEPT ![t] = "idle"]
            /\ pfd' = [pfd EXCEPT ![t] = NoFd]
            /\ pvm' = [pvm EXCEPT ![t] = NullVm]
            /\ pclass' = [pclass EXCEPT ![t] = NoClass]
            /\ UNCHANGED attached
    /\ UNCHANGED <<statics, invoked, lifecycle>>

\* What call_static_method("protectSocket", "(I)Z") can produce: the method
\* ran and returned a boolean, ran and returned something z() rejects, ran and
\* threw, or was not found (so it did not run).
CallOutcomes == {"true", "false", "not_boolean", "threw", "no_method"}

\* Result extraction that falls back to true when z() rejects the value.
Protected_DefaultTrue(r) == IF r \in {"true", "not_boolean"} THEN "true" ELSE "false"

\* lines 163-184: only Ok(jvalue) with jvalue.z() == Ok(true) gives true.
Protected(r) == IF r = "true" THEN "true" ELSE "false"

\* lines 135-190: a pending exception is cleared, the callback is called once,
\* an exception it raised is cleared, and the result is extracted.
protect_Call(t, r) ==
    /\ ppc[t] = "call"
    /\ invoked' = [invoked EXCEPT ![t] = IF r = "no_method" THEN @ ELSE @ + 1]
    /\ pret' = [pret EXCEPT ![t] = Protected(r)]
    /\ ppc' = [ppc EXCEPT ![t] = "idle"]
    /\ pfd' = [pfd EXCEPT ![t] = NoFd]
    /\ pvm' = [pvm EXCEPT ![t] = NullVm]
    /\ pclass' = [pclass EXCEPT ![t] = NoClass]
    /\ UNCHANGED <<statics, attached, lifecycle>>

\* ------------------------------------------------------------- start()
StartRet(code) == [op |-> "start", code |-> code]

\* Callers that passed the IS_RUNNING check and have not created their channel yet.
PendingStarts == {d \in Callers : pc[d] \in {"marshal", "set_running"}}

\* start() without the IS_RUNNING check of lines 235-239.
nativeStart_Check_NoRunningCheck(c) ==
    /\ pc[c] = "idle"
    /\ nextSession + Cardinality(PendingStarts) < MaxSessions
    /\ pc' = [pc EXCEPT ![c] = "marshal"]
    /\ UNCHANGED <<IS_RUNNING, CLIENT_STATE, registry, threads, handles, nextSession, sess, ret>>

\* lines 231-239: entry and the IS_RUNNING check.
nativeStart_Check(c) ==
    /\ pc[c] = "idle"
    /\ IS_RUNNING \/ nextSession + Cardinality(PendingStarts) < MaxSessions
    /\ IF IS_RUNNING
       THEN /\ ret' = StartRet(RC_ALREADY_RUNNING)
            /\ UNCHANGED pc
       ELSE /\ pc' = [pc EXCEPT ![c] = "marshal"]
            /\ UNCHANGED ret
    /\ UNCHANGED <<IS_RUNNING, CLIENT_STATE, registry, threads, handles, nextSession, sess>>

\* lines 241-367: the arguments are read through the JNI accessors and
\* marshaled; every failure returns before line 388.
nativeStart_Marshal(c, a) ==
    /\ pc[c] = "marshal"
    /\ IF Marshal(a) # RC_OK
       THEN /\ ret' = StartRet(Marshal(a))
            /\ pc' = [pc EXCEPT ![c] = "idle"]
       ELSE /\ pc' = [pc EXCEPT ![c] = "set_running"]
            /\ UNCHANGED ret
    /\ UNCHANGED <<IS_RUNNING, CLIENT_STATE, registry, threads, handles, nextSession, sess>>

\* lines 388-390: oneshot::channel(), then IS_RUNNING.store(true).
nativeStart_SetRunning(c) ==
    /\ pc[c] = "set_running"
    /\ nextSession < MaxSessions
    /\ nextSession' = nextSession + 1
    /\ chan' = [chan EXCEPT ![nextSession + 1] = "open"]
    /\ sess' = [sess EXCEPT ![c] = nextSession + 1]
    /\ IS_RUNNING' = TRUE
    /\ pc' = [pc EXCEPT ![c] = "spawn"]
    /\ UNCHANGED <<CLIENT_STATE, registry, threads, txUsed, joined, dropped, ret>>

\* line 398: std::thread::spawn.
nativeStart_Spawn(c) ==
    /\ pc[c] = "spawn"
    /\ thread' = [thread EXCEPT ![sess[c]] = "spawned"]
    /\ pc' = [pc EXCEPT ![c] = "store_handle"]
    /\ UNCHANGED <<IS_RUNNING, CLIENT_STATE, registry, outcome, handles, nextSession, sess, ret>>

\* An overwritten ClientHandle whose Sender is leaked instead of dropped
\* (as with mem::forget): the receiver never resolves.
DropSender_Leak(ch, h) == ch

\* Dropping a ClientHandle: its Sender is dropped (which resolves the receiver
\* with an error) and its JoinHandle is dropped (which detaches the thread).
DropSender(ch, h) == IF h # NoHandle /\ ch[h] = "open" THEN [ch EXCEPT ![h] = "dropped"] ELSE ch
DropJoinHandle(d, h) == IF h # NoHandle THEN d \cup {h} ELSE d

\* lines 442-449: *state = Some(ClientHandle{..}) under the lock; the previous
\* value of the slot is dropped by the assignment.
nativeStart_StoreHandle(c) ==
    /\ pc[c] = "store_handle"
    /\ CLIENT_STATE' = sess[c]
    /\ chan' = DropSender(chan, CLIENT_STATE)
    /\ dropped' = DropJoinHandle(dropped, CLIENT_STATE)
    /\ pc' = [pc EXCEPT ![c] = "grace"]
    /\ UNCHANGED <<IS_RUNNING, registry, threads, txUsed, joined, nextSession, sess, ret>>

\* A start() that skips the liveness check and always reports success.
GraceCode_AlwaysOk(running) == RC_OK

\* Result of the liveness check after the grace sleep.
GraceCode(running) == IF running THEN RC_OK ELSE RC_FAILED_TO_START

\* lines 451-461: sleep(100ms), then the IS_RUNNING re-check and return.
nativeStart_Grace(c) ==
    /\ pc[c] = "grace"
    /\ ret' = StartRet(GraceCode(IS_RUNNING))
    /\ pc' = [pc EXCEPT ![c] = "idle"]
    /\ sess' = [sess EXCEPT ![c] = NoHandle]
    /\ UNCHANGED <<IS_RUNNING, CLIENT_STATE, registry, threads, handles, nextSession>>

\* ------------------------------------------------------ session thread
\* lines 412-416: the runtime is built.
Thread_BuildRuntime(s) ==
    /\ thread[s] = "spawned"
    /\ thread' = [thread EXCEPT ![s] = "racing"]
    /\ UNCHANGED <<IS_RUNNING, CLIENT_STATE, registry, outcome, handles, nextSession, pc, sess, ret>>

\* line 416: .expect() panics; the thread ends without reaching line 438.
Thread_BuildRuntimePanics(s) ==
    /\ thread[s] = "spawned"
    /\ thread' = [thread EXCEPT ![s] = "panicked"]
    /\ UNCHANGED <<IS_RUNNING, CLIENT_STATE, registry, outcome, handles, nextSession, pc, sess, ret>>

\* lines 420-429: run_client(&config) resolves first; its result, Ok or Err,
\* is only logged.
Thread_EngineReturns(s) ==
    /\ thread[s] = "racing"
    /\ thread' = [thread EXCEPT ![s] = "exiting"]
    /\ outcome' = [outcome EXCEPT ![s] = "returned"]
    /\ UNCHANGED <<IS_RUNNING, CLIENT_STATE, registry, handles, nextSession, pc, sess, ret>>

\* shutdown_rx.await resolves once the sender was used or dropped.
ReceiverResolved(s) == chan[s] \in {"sent", "dropped"}

\* lines 430-434: the shutdown branch resolves first; the engine is abandoned.
Thread_ShutdownReceived(s) ==
    /\ thread[s] = "racing"
    /\ ReceiverResolved(s)
    /\ thread' = [thread EXCEPT ![s] = "exiting"]
    /\ outcome' = [outcome EXCEPT ![s] = "shutdown"]
    /\ UNCHANGED <<IS_RUNNING, CLIENT_STATE, registry, handles, nextSession, pc, sess, ret>>

\* A thread body that ends without the store of line 438.
Thread_Exit_KeepFlag(s) ==
    /\ thread[s] = "exiting"
    /\ thread' = [thread EXCEPT ![s] = "done"]
    /\ UNCHANGED <<IS_RUNNING, CLIENT_STATE, registry, outcome, handles, nextSession, pc, sess, ret>>

\* lines 438-440: IS_RUNNING.store(false), then the thread ends.
Thread_Exit(s) ==
    /\ thread[s] = "exiting"
    /\ thread' = [thread EXCEPT ![s] = "done"]
    /\ IS_RUNNING' = FALSE
    /\ UNCHANGED <<CLIENT_STATE, registry, outcome, handles, nextSession, pc, sess, ret>>

\* -------------------------------------------------------------- stop()
StopRet == [op |-> "stop", code |-> 0]

\* stop() that reads the slot without emptying it (as_ref instead of take).
nativeStop_Take_Peek(c) ==
    /\ pc[c] = "idle"
    /\ IF CLIENT_STATE = NoHandle
       THEN /\ ret' = StopRet
            /\ UNCHANGED <<pc, sess>>
       ELSE /\ sess' = [sess EXCEPT ![c] = CLIENT_STATE]
            /\ pc' = [pc EXCEPT ![c] = "send"]
            /\ UNCHANGED ret
    /\ UNCHANGED <<IS_RUNNING, CLIENT_STATE, registry, threads, handles, nextSession>>

\* stop() with the store of line 510 placed after the if/else, so that it
\* runs for an empty slot too.
nativeStop_Take_AlwaysClear(c) ==
    /\ pc[c] = "idle"
    /\ CLIENT_STATE' = NoHandle
    /\ IF CLIENT_STATE = NoHandle
       THEN /\ ret' = StopRet
            /\ IS_RUNNING' = FALSE
            /\ UNCHANGED <<pc, sess>>
       ELSE /\ sess' = [sess EXCEPT ![c] = CLIENT_STATE]
            /\ pc' = [pc EXCEPT ![c] = "send"]
            /\ UNCHANGED <<ret, IS_RUNNING>>
    /\ UNCHANGED <<registry, threads, handles, nextSession>>

\* lines 473-478 and 512-514: state.take() under the lock; an empty slot
\* ends the call in the else branch.
nativeStop_Take(c) ==
    /\ pc[c] = "idle"
    /\ CLIENT_STATE' = NoHandle
    /\ IF CLIENT_STATE = NoHandle
       THEN /\ ret' = StopRet
            /\ UNCHANGED <<pc, sess>>
       ELSE /\ sess' = [sess EXCEPT ![c] = CLIENT_STATE]
            /\ pc' = [pc EXCEPT ![c] = "send"]
            /\ UNCHANGED ret
    /\ UNCHANGED <<IS_RUNNING, registry, threads, handles, nextSession>>

\* stop() that takes the sender but keeps it alive without sending.
nativeStop_Send_NoSignal(c) ==
    /\ pc[c] = "send"
    /\ txUsed' = [txUsed EXCEPT ![sess[c]] = @ + 1]
    /\ pc' = [pc EXCEPT ![c] = "poll"]
    /\ UNCHANGED <<IS_RUNNING, CLIENT_STATE, registry, threads, chan, joined, dropped, nextSession, sess, ret>>

\* lines 479-483: handle.shutdown_tx.take() and tx.send(()), result ignored.
nativeStop_Send(c) ==
    /\ pc[c] = "send"
    /\ txUsed' = [txUsed EXCEPT ![sess[c]] = @ + 1]
    /\ chan' = [chan EXCEPT ![sess[c]] = IF @ = "open" THEN "sent" ELSE @]
    /\ pc' = [pc EXCEPT ![c] = "poll"]
    /\ UNCHANGED <<IS_RUNNING, CLIENT_STATE, registry, threads, joined, dropped, nextSession, sess, ret>>

\* lines 492-495: the poll loop sees IS_RUNNING false and breaks.
nativeStop_PollStopped(c) ==
    /\ pc[c] = "poll"
    /\ ~IS_RUNNING
    /\ pc' = [pc EXCEPT ![c] = "join"]
    /\ UNCHANGED <<IS_RUNNING, CLIENT_STATE, registry, threads, handles, nextSession, sess, ret>>

\* lines 496-499: IS_RUNNING is still true and the 3 seconds have elapsed.
nativeStop_PollTimeout(c) ==
    /\ pc[c] = "poll"
    /\ IS_RUNNING
    /\ pc' = [pc EXCEPT ![c] = "join"]
    /\ UNCHANGED <<IS_RUNNING, CLIENT_STATE, registry, threads, handles, nextSession, sess, ret>>

\* A join that returns only for a thread that ended normally.
ThreadEnded_OnlyNormal(s) == thread[s] = "done"

\* thread_handle.join() returns once the thread has ended, normally or by panic.
ThreadEnded(s) == thread[s] \in {"done", "panicked"}

\* lines 503-507: join; both results are only logged.
nativeStop_Join(c) ==
    /\ pc[c] = "join"
    /\ ThreadEnded(sess[c])
    /\ joined' = [joined EXCEPT ![sess[c]] = @ + 1]
    /\ pc' = [pc EXCEPT ![c] = "clear"]
    /\ UNCHANGED <<IS_RUNNING, CLIENT_STATE, registry, threads, chan, txUsed, dropped, nextSession, sess, ret>>

\* stop() that returns after the join without the store of line 510.
nativeStop_Clear_KeepFlag(c) ==
    /\ pc[c] = "clear"
    /\ ret' = StopRet
    /\ pc' = [pc EXCEPT ![c] = "idle"]
    /\ sess' = [sess EXCEPT ![c] = NoHandle]
    /\ UNCHANGED <<IS_RUNNING, CLIENT_STATE, registry, threads, handles, nextSession>>

\* lines 510-511: IS_RUNNING.store(false) and return.
nativeStop_Clear(c) ==
    /\ pc[c] = "clear"
    /\ IS_RUNNING' = FALSE
    /\ ret' = StopRet
    /\ pc' = [pc EXCEPT ![c] = "idle"]
    /\ sess' = [sess EXCEPT ![c] = NoHandle]
    /\ UNCHANGED <<CLIENT_STATE, registry, threads, handles, nextSession>>

\* --------------------------------------------------------- is_running()
\* lines 519-528.
nativeIsClientRunning(c) ==
    /\ pc[c] = "idle"
    /\ ret' = [op |-> "is_running", code |-> IF IS_RUNNING THEN JNI_TRUE ELSE JNI_FALSE]
    /\ UNCHANGED <<IS_RUNNING, CLIENT_STATE, registry, threads, handles, nextSession, pc, sess>>

\* ------------------------------------------------------- specifications
\* A step of caller c inside the entry point it is executing.
CallerStepOf(c) ==
    \/ \E a \in StartArgs : nativeStart_Marshal(c, a)
    \/ nativeStart_SetRunning(c)
    \/ nativeStart_Spawn(c)
    \/ nativeStart_StoreHandle(c)
    \/ nativeStart_Grace(c)
    \/ nativeStop_Send(c)
    \/ nativeStop_PollStopped(c)
    \/ nativeStop_PollTimeout(c)
    \/ nativeStop_Join(c)
    \/ nativeStop_Clear(c)

\* Steps inside an entry point that is already executing.
CallerStep == \E c \in Callers : CallerStepOf(c)

\* The host runtime invokes an entry point.
CallerEnter ==
    \E c \in Callers :
        \/ nativeStart_Check(c)
        \/ nativeStop_Take(c)
        \/ nativeIsClientRunning(c)

\* Steps the session thread takes by itself once it was spawned.
ThreadProgress ==
    \E s \in Sessions :
        \/ Thread_BuildRuntime(s)
        \/ Thread_ShutdownReceived(s)
        \/ Thread_Exit(s)

\* Steps decided by the environment: a failing runtime build, the engine returning.
ThreadEnvironment ==
    \E s \in Sessions :
        \/ Thread_BuildRuntimePanics(s)
        \/ Thread_EngineReturns(s)

\* The lifecycle controller.  It shares no state with the registry and
\* protect_socket, which are composed separately in BridgeSpec.
Next == CallerEnter \/ CallerStep \/ ThreadProgress \/ ThreadEnvironment

Spec == Init /\ [][Next]_vars

\* Entry points called one at a time: no call begins while another executes.
Quiet == \A c \in Callers : pc[c] = "idle"

SeqNext == (Quiet /\ CallerEnter) \/ CallerStep \/ ThreadProgress \/ ThreadEnvironment

\* A call that is executing keeps executing and a spawned thread is scheduled;
\* nothing forces the engine to return or a new call to begin.
Fairness ==
    /\ \A c \in Callers : WF_vars(CallerStepOf(c))
    /\ \A s \in Sessions : WF_vars(Thread_BuildRuntime(s) \/ Thread_ShutdownReceived(s) \/ Thread_Exit(s))

SeqSpec == Init /\ [][SeqNext]_vars /\ Fairness

\* Overlapping calls, with the same scheduling assumptions.
FairSpec == Init /\ [][Next]_vars /\ Fairness

\* The library is loaded, possibly more than once.
Load ==
    \/ \E vm \in VmPointers : JNI_OnLoad_StoreVm(vm)
    \/ \E found \in BOOLEAN : JNI_OnLoad_CacheClass(found)

\* Native threads protect their sockets.
Protect ==
    \E t \in NativeThreads :
        \/ \E fd \in Fds : protect_LoadVm(t, fd)
        \/ protect_GetClass(t)
        \/ \E ok \in BOOLEAN : protect_Attach(t, ok)
        \/ \E r \in CallOutcomes : protect_Call(t, r)

BridgeNext == Load \/ Protect

\* The load-time registry and the socket protection bridge.
BridgeSpec == Init /\ [][BridgeNext]_vars

TypeOK ==
    /\ IS_RUNNING \in BOOLEAN
    /\ CLIENT_STATE \in Sessions \cup {NoHandle}
    /\ JAVA_VM \in VmPointers \cup {NullVm}
    /\ BRIDGE_CLASS \in 0..MaxLoads
    /\ refs \in 0..loads
    /\ lpc \in {"idle", "cache"}
    /\ attached \subseteq NativeThreads
    /\ loads \in 0..MaxLoads
    /\ thread \in [Sessions -> {"none", "spawned", "racing", "exiting", "done", "panicked"}]
    /\ outcome \in [Sessions -> {"none", "returned", "shutdown"}]
    /\ chan \in [Sessions -> {"none", "open", "sent", "dropped"}]
    /\ nextSession \in 0..MaxSessions
    /\ pc \in [Callers -> {"idle", "marshal", "set_running", "spawn", "store_handle", "grace", "send", "poll", "join", "clear"}]
    /\ sess \in [Callers -> Sessions \cup {NoHandle}]

\* =============================================================== claims
\* Positions of start() after its std::thread::spawn returned.
AfterSpawn == {"store_handle", "grace"}

\* Sessions whose thread is inside the select!, running the engine.
RunningEngine == {s \in Sessions : thread[s] = "racing"}

\* C1: of two start() calls that overlap while IS_RUNNING is false, only one
\* spawns a session thread (the other returns -10), so two calls that are
\* executing at the same time never have both spawned a thread.
C1_OneSpawnPerRace ==
    \A c, d \in Callers : c # d => ~(pc[c] \in AfterSpawn /\ pc[d] \in AfterSpawn)

\* C2: in every reachable state at most one session thread is running the engine.
C2_AtMostOneLive == Cardinality(RunningEngine) <= 1

\* Positions of stop() while it owns the handle it removed from the slot.
InStop == {"send", "poll", "join", "clear"}

\* No session thread is left that has not ended.
NoThreadLeft == \A s \in Sessions : thread[s] \in {"none", "done", "panicked"}

\* A stop() is executing that removed a ClientHandle from the slot.
Stopping == \E c \in Callers : pc[c] \in InStop

\* The last entry point that returned is stop(), and no call is executing.
Stopped == Quiet /\ ret = StopRet

\* C3: with calls made one at a time, a stop() called after a start() has
\* stored its session eventually returns, and once it has returned IS_RUNNING
\* is false, the thread of that session (the last one created) has ended and
\* was joined once, and no session thread is left.
C3_StopReaps ==
    /\ [](Stopped =>
            /\ ~IS_RUNNING
            /\ NoThreadLeft
            /\ nextSession > 0 => (ThreadEnded(nextSession) /\ joined[nextSession] = 1))
    /\ (Stopping ~> Stopped)

\* C3 witness: stop() returned after start() returned and the stop signal made
\* the session thread leave the engine.
C3_Witness ==
    /\ Stopped
    /\ nextSession > 0
    /\ outcome[nextSession] = "shutdown"
    /\ chan[nextSession] = "sent"
    /\ joined[nextSession] = 1

\* C4 as stated: with calls made one at a time, start() against an engine
\* that has already returned still returns 0, is_running() returns true from
\* then on until stop() is called, and false once stop() has returned.
C4_ImmediateSuccessReturns0 ==
    [][\A c \in Callers :
        /\ (nativeStart_Grace(c) /\ outcome[sess[c]] = "returned") => ret'.code = RC_OK
        /\ (nativeIsClientRunning(c) /\ CLIENT_STATE # NoHandle) => ret'.code = JNI_TRUE
        /\ (nativeIsClientRunning(c) /\ CLIENT_STATE = NoHandle) => ret'.code = JNI_FALSE]_vars

\* C4 amended: with calls made one at a time, start() returns 0 exactly when
\* its session thread has not reached the end of its body by the re-check (in
\* particular while the engine keeps running) and -11 when it has; after
\* start() stored its session, is_running() returns true as long as that
\* thread has not ended its body and stop() was not called, and false once
\* stop() has returned.
C4_StartThenObserve ==
    [][\A c \in Callers :
        /\ (nativeStart_Grace(c) /\ thread[sess[c]] # "done") => ret'.code = RC_OK
        /\ (nativeStart_Grace(c) /\ thread[sess[c]] = "done") => ret'.code = RC_FAILED_TO_START
        /\ (nativeIsClientRunning(c) /\ CLIENT_STATE # NoHandle /\ thread[CLIENT_STATE] # "done")
               => ret'.code = JNI_TRUE
        /\ (nativeIsClientRunning(c) /\ CLIENT_STATE = NoHandle) => ret'.code = JNI_FALSE]_vars

\* C4 witness: is_running() returned true after start() while the engine is
\* still running and stop() was not called.
C4_Witness ==
    /\ Quiet
    /\ CLIENT_STATE # NoHandle
    /\ thread[CLIENT_STATE] = "racing"
    /\ ret = [op |-> "is_running", code |-> JNI_TRUE]

\* C5: a start() that finds IS_RUNNING true returns -10, spawns no thread and
\* leaves IS_RUNNING, the session slot and every session untouched.
C5_RejectWhileRunning ==
    [][\A c \in Callers :
        (IS_RUNNING /\ nativeStart_Check(c)) =>
            /\ ret' = StartRet(RC_ALREADY_RUNNING)
            /\ pc'[c] = "idle"
            /\ UNCHANGED <<IS_RUNNING, CLIENT_STATE, thread, outcome, chan, txUsed, joined,
                           dropped, nextSession, sess>>]_vars

\* C5 witness: a start() was rejected with -10 while a session is running.
C5_Witness ==
    /\ ret = StartRet(RC_ALREADY_RUNNING)
    /\ IS_RUNNING
    /\ CLIENT_STATE # NoHandle
    /\ thread[CLIENT_STATE] = "racing"

\* C6: two overlapping stop() calls never own the same ClientHandle, and for
\* every session the shutdown sender is used at most once and the thread is
\* joined at most once.
C6_ConsumedOnce ==
    /\ \A c, d \in Callers :
         (c # d /\ pc[c] \in InStop /\ pc[d] \in InStop) => sess[c] # sess[d]
    /\ \A s \in Sessions : txUsed[s] <= 1 /\ joined[s] <= 1

\* C6 witness: while one stop() owns the handle, the other caller's stop()
\* found the slot empty and returned (no stop() has joined anything yet).
C6_Witness ==
    \E c, d \in Callers :
        /\ c # d
        /\ pc[c] \in {"poll", "join", "clear"}
        /\ pc[d] = "idle"
        /\ ret = StopRet
        /\ txUsed[sess[c]] = 1
        /\ \A s \in Sessions : joined[s] = 0 \/ (s = sess[c] /\ pc[c] = "clear")

\* C7: a stop() that finds the slot empty changes nothing: the slot stays
\* empty, IS_RUNNING keeps its value, nothing is sent or joined, and it returns.
C7_StopNoOp ==
    [][\A c \in Callers :
        (CLIENT_STATE = NoHandle /\ nativeStop_Take(c)) =>
            /\ ret' = StopRet
            /\ pc'[c] = "idle"
            /\ UNCHANGED <<IS_RUNNING, CLIENT_STATE, thread, outcome, chan, txUsed, joined,
                           dropped, nextSession, sess>>]_vars

\* C7 witness: stop() returned although no session was ever created.
C7_Witness ==
    /\ ret = StopRet
    /\ nextSession = 0
    /\ ~IS_RUNNING
    /\ CLIENT_STATE = NoHandle

\* The resolver list is empty.
NoResolvers(a) == a.jni = "none" /\ a.hosts = <<>>

\* The argument values C9 is about: parsable entries followed by one that
\* fails parsing (what follows the failing entry is never read).
ParseFailArgs ==
    [jni : {"none"},
     hosts : {[i \in 1..k |-> IF i = k THEN "no_parse" ELSE "ok"] : k \in 1..MaxResolvers}]

\* The argument values C8 is about: those, and the empty list.
BadResolverArgs == ParseFailArgs \cup {[jni |-> "none", hosts |-> <<>>]}

\* C8: start() with an empty resolver list returns -2, start() with an entry
\* that fails parsing returns an error; in both cases no channel is created,
\* no thread is spawned, the slot is not written and IS_RUNNING is not set.
C8_BadResolversAbort ==
    [][\A c \in Callers : pc[c] = "marshal" => \A a \in BadResolverArgs :
        nativeStart_Marshal(c, a) =>
            /\ NoResolvers(a) => ret' = StartRet(RC_BAD_RESOLVERS)
            /\ ret'.op = "start" /\ ret'.code < 0
            /\ pc'[c] = "idle"
            /\ UNCHANGED <<IS_RUNNING, CLIENT_STATE, thread, outcome, chan, txUsed, joined,
                           dropped, nextSession, sess>>]_vars

\* C8 witness: a start() was aborted by a resolver that does not parse, with none running.
C8_Witness ==
    /\ ret = StartRet(RC_BAD_HOST_PARSE)
    /\ ~IS_RUNNING
    /\ \A c \in Callers : pc[c] = "idle"

\* C9: a resolver entry that fails host/port parsing makes start() return -2.
C9_ParseFailureReturnsMinus2 ==
    [][\A c \in Callers : pc[c] = "marshal" => \A a \in ParseFailArgs :
        nativeStart_Marshal(c, a) => ret' = StartRet(RC_BAD_RESOLVERS)]_vars

\* The first JNI_OnLoad call has returned.
FirstLoadDone == loads > 1 \/ (loads = 1 /\ lpc = "idle")

C11_UnsetReturnsFalse ==
    [][\A t \in NativeThreads :
        /\ (JAVA_VM = NullVm /\ \E fd \in Fds : protect_LoadVm(t, fd)) =>
              /\ pret'[t] = "false"
              /\ ppc'[t] = "idle"
              /\ attached' = attached
              /\ invoked'[t] = 0
        /\ (BRIDGE_CLASS = NoClass /\ protect_GetClass(t)) =>
              /\ pret'[t] = "false"
              /\ ppc'[t] = "idle"
              /\ attached' = attached
              /\ invoked'[t] = 0]_vars

\* C11 witness: JNI_OnLoad stored the pointer but cached no class, and a
\* protect_socket call returned false with the thread unattached and the
\* callback never invoked.
C11_Witness ==
    \E t \in NativeThreads :
        /\ ppc[t] = "idle"
        /\ pret[t] = "false"
        /\ JAVA_VM # NullVm
        /\ BRIDGE_CLASS = NoClass
        /\ lpc = "idle"
        /\ t \notin attached
        /\ invoked[t] = 0

\* C12: every protect_socket call invokes the callback at most once; it
\* returns true only when the callback ran and returned the boolean true; a
\* null pointer, an empty class cell, a failed attach, a call that threw or
\* could not be made, and a result that is not a boolean all return false.
C12_AtMostOneCallback ==
    /\ [](\A t \in NativeThreads :
            /\ invoked[t] <= 1
            /\ pret[t] = "true" => invoked[t] = 1)
    /\ [][\A t \in NativeThreads :
            /\ \A r \in CallOutcomes : protect_Call(t, r) =>
                  /\ pret'[t] = "true" <=> r = "true"
                  /\ pret'[t] \in {"true", "false"}
                  /\ ppc'[t] = "idle"
            /\ (JAVA_VM = NullVm /\ \E fd \in Fds : protect_LoadVm(t, fd)) => pret'[t] = "false"
            /\ (BRIDGE_CLASS = NoClass /\ protect_GetClass(t)) => pret'[t] = "false"
            /\ protect_Attach(t, FALSE) => pret'[t] = "false"]_vars

\* C12 witness: one thread's call returned true after one invocation, while
\* the other thread's call invoked the callback once and returned false.
C12_Witness ==
    \E t, u \in NativeThreads :
        /\ ppc[t] = "idle" /\ pret[t] = "true" /\ invoked[t] = 1
        /\ ppc[u] = "idle" /\ pret[u] = "false" /\ invoked[u] = 1

\* The session thread has left the select!: it is about to store
\* IS_RUNNING=false, or it has ended.
LeftRace(s) == thread[s] \in {"exiting", "done", "panicked"}

\* C13: start() returns -11 only when the session thread it spawned has left
\* the engine race; it never returns -11 while that thread runs the engine.
C13_FailedOnlyAfterRace ==
    [][\A c \in Callers :
        (pc[c] = "grace" /\ nativeStart_Grace(c) /\ ret'.code = RC_FAILED_TO_START)
            => LeftRace(sess[c])]_vars

\* Positions of start() after IS_RUNNING.store(true) and before the slot is written.
BeforeStore == {"spawn", "store_handle"}

\* C14: whenever IS_RUNNING is true, a start() is between setting the flag
\* and storing its ClientHandle, or the slot holds a ClientHandle, or a stop()
\* owns the handle it removed and has not returned.
C14_FlagHasHolder ==
    IS_RUNNING =>
        \/ \E c \in Callers : pc[c] \in BeforeStore
        \/ CLIENT_STATE # NoHandle
        \/ \E c \in Callers : pc[c] \in InStop

\* C14 witness: the flag is true, the slot is empty and no start() is
\* executing; a stop() owns the handle of a session whose thread panicked.
C14_Witness ==
    /\ IS_RUNNING
    /\ CLIENT_STATE = NoHandle
    /\ \A c \in Callers : pc[c] \in InStop \cup {"idle"}
    /\ \E c \in Callers : pc[c] = "join" /\ thread[sess[c]] = "panicked"

\* A stop() owns the handle of a session whose thread panicked before line 438.
StoppingPanicked == \E c \in Callers : pc[c] \in InStop /\ thread[sess[c]] = "panicked"

\* C15: with calls made one at a time, when a session thread panicked and left
\* IS_RUNNING true, the stop() that owns its handle leaves the poll loop by the
\* timeout, joins the thread once, stores IS_RUNNING=false and returns its
\* ordinary result; it always returns, and a start() that then finds the
\* flag false is not rejected with -10.
C15_StopAfterPanic ==
    /\ [](\A c \in Callers : (pc[c] = "poll" /\ thread[sess[c]] = "panicked") => IS_RUNNING)
    /\ [](\A c \in Callers : (pc[c] = "clear" /\ thread[sess[c]] = "panicked") => joined[sess[c]] = 1)
    /\ [][\A c \in Callers :
            /\ (pc[c] = "clear" /\ thread[sess[c]] = "panicked" /\ nativeStop_Clear(c)) =>
                  (ret' = StopRet /\ pc'[c] = "idle" /\ ~IS_RUNNING')
            /\ (pc[c] = "idle" /\ ~IS_RUNNING /\ nativeStart_Check(c)) =>
                  (pc'[c] = "marshal" /\ ret' = ret)]_vars
    /\ (StoppingPanicked ~> (Stopped /\ ~IS_RUNNING))

\* C15 witness: the thread of session 1 panicked, stop() joined it and
\* returned, and a later start() was accepted and has set IS_RUNNING again.
C15_Witness ==
    /\ thread[1] = "panicked"
    /\ joined[1] = 1
    /\ nextSession = 2
    /\ IS_RUNNING
    /\ \E c \in Callers : pc[c] = "spawn" /\ sess[c] = 2

\* The slot still holds the handle of a session whose engine returned by
\* itself and whose thread has ended: no stop() removed it since.
EndedByItself == CLIENT_STATE # NoHandle /\ thread[CLIENT_STATE] = "done" /\ outcome[CLIENT_STATE] = "returned"

\* C16: with calls made one at a time, once run_client returned (Ok or Err)
\* the session thread stores IS_RUNNING=false and ends; from then on, with no
\* stop() in between, the flag is false whenever no call is executing, and a
\* start() passes the IS_RUNNING check instead of returning -10.
C16_NaturalExitAllowsRestart ==
    /\ [][\A s \in Sessions : Thread_Exit(s) => (~IS_RUNNING' /\ thread'[s] = "done")]_vars
    /\ []((Quiet /\ EndedByItself) => ~IS_RUNNING)
    /\ [][\A c \in Callers : (EndedByItself /\ nativeStart_Check(c)) =>
            (pc'[c] = "marshal" /\ ret' = ret)]_vars
    /\ \A s \in Sessions : (outcome[s] = "returned") ~> (thread[s] = "done")

\* C16 witness: session 1 ended because its engine returned, no stop() ever
\* ran, and a start() has passed the IS_RUNNING check.
C16_Witness ==
    /\ CLIENT_STATE = 1
    /\ thread[1] = "done"
    /\ outcome[1] = "returned"
    /\ txUsed[1] = 0
    /\ joined[1] = 0
    /\ \E c \in Callers : pc[c] = "marshal"

\* C17: with calls made one at a time, no JoinHandle is dropped without
\* having been joined (start() never overwrites a slot that holds an unjoined
\* ClientHandle), and no thread is joined more than once.
C17_NoHandleDiscarded ==
    /\ \A s \in dropped : joined[s] = 1
    /\ \A s \in Sessions : joined[s] <= 1

\* Positions of a start() that passed the IS_RUNNING check and has not returned.
InStart == {"marshal", "set_running", "spawn", "store_handle", "grace"}

\* C18: whenever IS_RUNNING is false and no start() is executing, no session
\* thread is running the engine, so is_running() never returns false while a
\* session is live.
C18_FalseMeansNoEngine ==
    (~IS_RUNNING /\ \A c \in Callers : pc[c] \notin InStart) => RunningEngine = {}

\* C19: a stop() invoked while a start() has already stored IS_RUNNING=true
\* and has not yet written the slot is not lost: when that stop() returns
\* (here in the step that invoked it, so no start() began in between),
\* IS_RUNNING is false and no session thread is running the engine.
C19_OverlappingStopNotLost ==
    [][\A c \in Callers :
        (/\ pc[c] = "idle"
         /\ \E d \in Callers : pc[d] \in BeforeStore
         /\ \A d \in Callers : pc[d] \notin {"marshal", "set_running"}
         /\ nativeStop_Take(c)
         /\ pc'[c] = "idle")
            => (~IS_RUNNING' /\ RunningEngine' = {})]_vars

\* A stop() was invoked when every other call had returned: the slot is empty,
\* no start() is executing, and either that stop() owns the handle it removed
\* or it found the slot empty and has returned.
FinalStop ==
    /\ CLIENT_STATE = NoHandle
    /\ \A d \in Callers : pc[d] \notin InStart
    /\ \/ \E c \in Callers : pc[c] \in InStop /\ \A d \in Callers \ {c} : pc[d] = "idle"
       \/ Stopped

\* A start() has passed the IS_RUNNING check and is executing.
StartBegun == \E d \in Callers : pc[d] \in InStart

\* C20: with overlapping calls and fair scheduling, after a stop() invoked
\* once all other calls have returned, that stop() returns and every session
\* thread ends, including a thread whose ClientHandle was overwritten in the
\* slot (its dropped Sender resolves shutdown_rx), unless a new start() begins.
C20_FinalStopEndsAllThreads ==
    FinalStop ~> ((Quiet /\ NoThreadLeft) \/ StartBegun)

\* C20 witness: both sessions were started by overlapping calls; one handle
\* was overwritten in the slot and never joined, its thread left the engine
\* through the dropped Sender; the final stop() joined the other and returned.
C20_Witness ==
    /\ Stopped
    /\ NoThreadLeft
    /\ CLIENT_STATE = NoHandle
    /\ \E s \in dropped :
          /\ chan[s] = "dropped"
          /\ outcome[s] = "shutdown"
          /\ joined[s] = 0
    /\ \E s \in Sessions : joined[s] = 1 /\ chan[s] = "sent"

====
